---------------------------- MODULE Spec2Model ----------------------------
(***************************************************************************)
(* flash::BlockInfo (csrc/flash_attn/src/block_info.h): per-batch-element  *)
(* sequence-length resolution and key-cache block addressing, contiguous   *)
(* or through a block table.                                               *)
(*                                                                         *)
(* C types.  An `int` value is a TLA+ integer in -2^31 .. 2^31-1.  An      *)
(* `index_t` value (64-bit signed) is kept as its eight two's-complement   *)
(* bytes, least significant first, because products of two ints do not fit *)
(* the model checker's integers.  A null pointer is the empty sequence; a  *)
(* C array a[0..n-1] is the sequence <<a[0], ..., a[n-1]>>.                *)
(***************************************************************************)
EXTENDS Integers, Sequences, FiniteSets

VARIABLES Varlen, params, launch, pc, bidb, binfo, call

vars == <<Varlen, params, launch, pc, bidb, binfo, call>>

----------------------------------------------------------------------------
(* Bounds of the model. *)

\* batch elements of a launch (valid batch indices are 0 .. BatchSize-1)
BatchSize == 2
\* largest per-batch sequence length, padded length and new-key length
MaxLen == 1
\* largest batch stride, row stride, block length and cache block stride
MaxStride == 2
\* logical blocks per batch element in the block table
PagesPerSeq == 3

----------------------------------------------------------------------------
(* Machine arithmetic. *)

Null == << >>

\* bytes of an index_t
WideBytes == 8

Pow256(k) == 256 ^ k

\* int -> index_t: sign extension
FromInt(i) ==
    IF 0 <= i /\ i < 65536
    THEN <<i % 256, i \div 256, 0, 0, 0, 0, 0, 0>>
    ELSE [k \in 1..WideBytes |->
            IF k <= 4 THEN (i \div Pow256(k - 1)) % 256
            ELSE IF i < 0 THEN 255 ELSE 0]

\* uint32_t(i) -> index_t: the int's 32 bits, zero extended
FromUInt32(i) ==
    [k \in 1..WideBytes |->
        IF k <= 4 THEN (i \div Pow256(k - 1)) % 256 ELSE 0]

\* index_t -> int: the low 32 bits, as a signed value
ToInt32(w) ==
    w[1] + 256 * w[2] + 65536 * w[3]
      + 16777216 * (IF w[4] >= 128 THEN w[4] - 256 ELSE w[4])

RECURSIVE Propagate(_, _, _)
\* cols[k] is the sum of column k; carries are pushed upward, modulo 2^64
Propagate(cols, k, carry) ==
    IF k > WideBytes THEN << >>
    ELSE LET t == cols[k] + carry
         IN  <<t % 256>> \o Propagate(cols, k + 1, t \div 256)

RECURSIVE ColumnSum(_, _, _, _)
ColumnSum(a, b, k, i) ==
    IF i > k THEN 0 ELSE a[i] * b[k + 1 - i] + ColumnSum(a, b, k, i + 1)

\* 0 <= w < 2^15, and then w = Low16(w): sums and products of two such
\* values need no carries
Fits15(w) == w[2] < 128 /\ \A k \in 3..WideBytes : w[k] = 0

Low16(w) == w[1] + 256 * w[2]

\* index_t + index_t
WAdd(a, b) ==
    IF Fits15(a) /\ Fits15(b) THEN FromInt(Low16(a) + Low16(b))
    ELSE Propagate([k \in 1..WideBytes |-> a[k] + b[k]], 1, 0)

\* index_t * index_t
WMul(a, b) ==
    IF Fits15(a) /\ Fits15(b)
    THEN LET m == Low16(a) * Low16(b)
         IN  <<m % 256, (m \div 256) % 256, (m \div 65536) % 256,
               m \div 16777216, 0, 0, 0, 0>>
    ELSE Propagate([k \in 1..WideBytes |-> ColumnSum(a, b, k, 1)], 1, 0)

\* index_t - index_t
WSub(a, b) ==
    Propagate([k \in 1..WideBytes |-> a[k] + (255 - b[k])], 1, 1)

Small(i) == -32768 < i /\ i < 32768

\* int * int; a product outside int wraps (the 32 low bits are kept)
IntMul(a, b) ==
    IF Small(a) /\ Small(b) THEN a * b
    ELSE ToInt32(WMul(FromInt(a), FromInt(b)))

\* int + int
IntAdd(a, b) ==
    IF Small(a) /\ Small(b) THEN a + b
    ELSE ToInt32(WAdd(FromInt(a), FromInt(b)))

\* int - int
IntSub(a, b) ==
    IF Small(a) /\ Small(b) THEN a - b
    ELSE ToInt32(WSub(FromInt(a), FromInt(b)))

\* -int
IntNeg(a) == IntSub(0, a)

\* a[i] of a C array
At(a, i) == a[i + 1]

----------------------------------------------------------------------------
(* BlockInfo<Varlen>::BlockInfo(params, bidb): the member initialisers, in *)
(* the order the members are declared.                                     *)

\* mutant: the Varlen switch is not consulted
Init_sum_s_q_NoSwitch(V, p, b) ==
    IF p.cu_seqlens_q = Null THEN -1 ELSE At(p.cu_seqlens_q, b)

Init_sum_s_q(V, p, b) ==
    IF ~V \/ p.cu_seqlens_q = Null THEN -1 ELSE At(p.cu_seqlens_q, b)

Init_sum_s_k(V, p, b) ==
    IF ~V \/ p.cu_seqlens_k = Null \/ ~p.is_seqlens_k_cumulative
    THEN -1 ELSE At(p.cu_seqlens_k, b)

\* mutant: the end offset is taken for the length
Init_actual_seqlen_q_NoSub(V, p, b, sum_s_q) ==
    IF ~V \/ p.cu_seqlens_q = Null THEN p.seqlen_q
    ELSE At(p.cu_seqlens_q, b + 1)

Init_actual_seqlen_q(V, p, b, sum_s_q) ==
    IF ~V \/ p.cu_seqlens_q = Null THEN p.seqlen_q
    ELSE IntSub(At(p.cu_seqlens_q, b + 1), sum_s_q)

\* mutant: the array is always read as running totals
Init_seqlen_k_cache_AlwaysCumulative(V, p, b, sum_s_k) ==
    IF ~V \/ p.cu_seqlens_k = Null THEN p.seqlen_k
    ELSE IntSub(At(p.cu_seqlens_k, b + 1), At(p.cu_seqlens_k, b))

Init_seqlen_k_cache(V, p, b, sum_s_k) ==
    IF ~V \/ p.cu_seqlens_k = Null THEN p.seqlen_k
    ELSE IF p.is_seqlens_k_cumulative
         THEN IntSub(At(p.cu_seqlens_k, b + 1), sum_s_k)
         ELSE At(p.cu_seqlens_k, b)

\* mutant: the new keys are taken off the cached length
Init_actual_seqlen_k_Minus(p, seqlen_k_cache) ==
    IntSub(seqlen_k_cache, IF p.knew_ptr = Null THEN 0 ELSE p.seqlen_knew)

Init_actual_seqlen_k(p, seqlen_k_cache) ==
    IntAdd(seqlen_k_cache, IF p.knew_ptr = Null THEN 0 ELSE p.seqlen_knew)

\* mutant: actual_seqlen_k is declared, and so initialised, before
\* seqlen_k_cache, and reads it while it is still 0
BlockInfo_DeclaredBefore(V, p, b) ==
    LET sq  == Init_sum_s_q(V, p, b)
        sk  == Init_sum_s_k(V, p, b)
        aq  == Init_actual_seqlen_q(V, p, b, sq)
        ak  == Init_actual_seqlen_k(p, 0)
        kc  == Init_seqlen_k_cache(V, p, b, sk)
    IN  [sum_s_q |-> sq,
         sum_s_k |-> sk,
         actual_seqlen_q |-> aq,
         seqlen_k_cache |-> kc,
         actual_seqlen_k |-> ak,
         pg_attn_block_tables_ptr |-> p.pg_attn_block_tables_ptr,
         pg_attn_block_batch_stride |-> p.pg_attn_block_tables_batch_stride,
         pg_attn_cache_block_stride |-> p.pg_attn_cache_block_stride]

BlockInfo(V, p, b) ==
    LET sq  == Init_sum_s_q(V, p, b)
        sk  == Init_sum_s_k(V, p, b)
        aq  == Init_actual_seqlen_q(V, p, b, sq)
        kc  == Init_seqlen_k_cache(V, p, b, sk)
        ak  == Init_actual_seqlen_k(p, kc)
    IN  [sum_s_q |-> sq,
         sum_s_k |-> sk,
         actual_seqlen_q |-> aq,
         seqlen_k_cache |-> kc,
         actual_seqlen_k |-> ak,
         pg_attn_block_tables_ptr |-> p.pg_attn_block_tables_ptr,
         pg_attn_block_batch_stride |-> p.pg_attn_block_tables_batch_stride,
         pg_attn_cache_block_stride |-> p.pg_attn_cache_block_stride]

----------------------------------------------------------------------------
(* The accessors. *)

\* mutant: a packed offset is scaled by the batch stride
q_offset_BatchStride(bi, batch_stride, row_stride, b) ==
    IF bi.sum_s_q = -1 THEN WMul(FromInt(b), batch_stride)
    ELSE WMul(FromUInt32(bi.sum_s_q), batch_stride)

q_offset(bi, batch_stride, row_stride, b) ==
    IF bi.sum_s_q = -1 THEN WMul(FromInt(b), batch_stride)
    ELSE WMul(FromUInt32(bi.sum_s_q), row_stride)

k_offset(bi, batch_stride, row_stride, b) ==
    IF bi.sum_s_k = -1 THEN WMul(FromInt(b), batch_stride)
    ELSE WMul(FromUInt32(bi.sum_s_k), row_stride)

\* mutant: every batch element reads the first row of the table
BlockTableEntry_FirstRow(bi, b, block_id) ==
    At(bi.pg_attn_block_tables_ptr, block_id)

\* pg_attn_block_tables_ptr[bidb * pg_attn_block_batch_stride + block_id]
BlockTableEntry(bi, b, block_id) ==
    At(bi.pg_attn_block_tables_ptr,
       IntAdd(IntMul(b, bi.pg_attn_block_batch_stride), block_id))

\* mutant: the contiguous offset leaves out the batch element's base
k_offset_pg_NoBase(bi, batch_stride, row_stride, b, block_id, k_block_n, widen) ==
    IF bi.pg_attn_block_tables_ptr = Null
    THEN WMul(FromInt(IntMul(block_id, k_block_n)), row_stride)
    ELSE FromInt(IntMul(BlockTableEntry(bi, b, block_id),
                        bi.pg_attn_cache_block_stride))

\* mutant: the looked-up offset is added to the contiguous one
k_offset_pg_Combined(bi, batch_stride, row_stride, b, block_id, k_block_n, widen) ==
    LET original_offset ==
            WAdd(k_offset(bi, batch_stride, row_stride, b),
                 WMul(FromInt(IntMul(block_id, k_block_n)), row_stride))
    IN  IF bi.pg_attn_block_tables_ptr = Null THEN original_offset
        ELSE WAdd(original_offset,
                  FromInt(IntMul(BlockTableEntry(bi, b, block_id),
                                 bi.pg_attn_cache_block_stride)))

\* The product in the block-table branch is int * int, converted to index_t
\* on return.  A product outside int is undefined: the build either keeps
\* the 32 low bits (widen = FALSE) or multiplies into a 64-bit register
\* (widen = TRUE).  The two agree whenever the product fits an int.
k_offset_pg(bi, batch_stride, row_stride, b, block_id, k_block_n, widen) ==
    IF bi.pg_attn_block_tables_ptr = Null
    THEN WAdd(k_offset(bi, batch_stride, row_stride, b),
              WMul(FromInt(IntMul(block_id, k_block_n)), row_stride))
    ELSE IF widen
         THEN WMul(FromInt(BlockTableEntry(bi, b, block_id)),
                   FromInt(bi.pg_attn_cache_block_stride))
         ELSE FromInt(IntMul(BlockTableEntry(bi, b, block_id),
                             bi.pg_attn_cache_block_stride))

\* mutant: the step between blocks is taken to be the same everywhere
k_advance_offset_pg_Fixed(bi, b, current_block_id, row_stride, k_block_n) ==
    IF bi.pg_attn_block_tables_ptr = Null
    THEN IntNeg(ToInt32(WMul(FromInt(k_block_n), row_stride)))
    ELSE IntNeg(bi.pg_attn_cache_block_stride)

k_advance_offset_pg(bi, b, current_block_id, row_stride, k_block_n) ==
    IF bi.pg_attn_block_tables_ptr = Null
    THEN IntNeg(ToInt32(WMul(FromInt(k_block_n), row_stride)))
    ELSE IntSub(IntMul(BlockTableEntry(bi, b, current_block_id - 1),
                       bi.pg_attn_cache_block_stride),
                IntMul(BlockTableEntry(bi, b, current_block_id),
                       bi.pg_attn_cache_block_stride))

----------------------------------------------------------------------------
(* Configurations.  The caller owns params and the strides it passes to    *)
(* the accessors; both are fixed for a launch.                             *)

RECURSIVE SumTo(_, _)
SumTo(l, n) == IF n = 0 THEN 0 ELSE l[n] + SumTo(l, n - 1)

\* the running totals of per-batch lengths l: BatchSize + 1 entries
Cumulative(l) == [i \in 1..(BatchSize + 1) |-> SumTo(l, i - 1)]

Reverse(a) == [i \in 1..Len(a) |-> a[Len(a) + 1 - i]]

Monotone(a) == \A i \in 1..(Len(a) - 1) : a[i] <= a[i + 1]

\* arrays a caller may pass as cu_seqlens_q / cu_seqlens_k: running totals,
\* and (outside the contract, or as per-batch lengths) the same backwards
OffsetArrays ==
    LET up == {Cumulative(l) : l \in [1..BatchSize -> 0..MaxLen]}
    IN  up \cup {Reverse(a) : a \in up}

\* block tables: BatchSize rows of PagesPerSeq entries, physical blocks
\* 0 .. PagesPerSeq-1; row b is f, rotated by shift * b
BlockTables ==
    {[i \in 1..(BatchSize * PagesPerSeq) |->
        f[(((i - 1) % PagesPerSeq) + shift * ((i - 1) \div PagesPerSeq))
            % PagesPerSeq]] :
        f \in [0..(PagesPerSeq - 1) -> 0..(PagesPerSeq - 1)], shift \in 0..1}

IdentityTable == [i \in 1..(BatchSize * PagesPerSeq) |-> (i - 1) % PagesPerSeq]

Params(cq, ck, cum, sq, sk, knew, snew, tbl, cbs) ==
    [cu_seqlens_q |-> cq,
     cu_seqlens_k |-> ck,
     is_seqlens_k_cumulative |-> cum,
     seqlen_q |-> sq,
     seqlen_k |-> sk,
     knew_ptr |-> knew,
     seqlen_knew |-> snew,
     pg_attn_block_tables_ptr |-> tbl,
     pg_attn_block_tables_batch_stride |-> PagesPerSeq,
     pg_attn_cache_block_stride |-> cbs]

\* padded lengths: longer than any packed sequence of the model
PaddedQ == MaxLen + 1
PaddedK == MaxLen + 2

Launch(bs, rs, n) == [batch_stride |-> bs, row_stride |-> rs, k_block_n |-> n]

\* The last accessor call: its name, its result ret (an index_t) and, for
\* the block accessors, the kernel's K pointer: ret is the offset it holds,
\* block_id the block it is meant to point at, start the block it was first
\* set to, delta the last advance added to it.
NoCall ==
    [op |-> "none", start |-> 0, block_id |-> 0, delta |-> 0,
     ret |-> FromInt(0)]

NoInfo == BlockInfo(FALSE, Params(Null, Null, FALSE, 0, 0, Null, 0, Null, 0), 0)

Start ==
    /\ pc = "launched"
    /\ bidb = 0
    /\ binfo = NoInfo
    /\ call = NoCall

\* query side varied
InitQuery ==
    /\ Varlen \in BOOLEAN
    /\ \E cq \in {Null} \cup OffsetArrays :
          params = Params(cq, Null, TRUE, PaddedQ, PaddedK, Null, 0, Null, 1)
    /\ \E bs \in 0..MaxStride, rs \in 0..MaxStride : launch = Launch(bs, rs, 1)
    /\ Start

\* key lengths varied
InitKeyLen ==
    /\ Varlen \in BOOLEAN
    /\ \E ck \in {Null} \cup OffsetArrays, cum \in BOOLEAN,
          knew \in {Null, <<0>>}, snew \in 0..MaxLen :
          params = Params(Null, ck, cum, PaddedQ, PaddedK, knew, snew, Null, 1)
    /\ launch = Launch(1, 1, 1)
    /\ Start

\* key addressing varied
InitKeyAddr ==
    /\ Varlen = TRUE
    /\ \E ck \in {Null} \cup OffsetArrays, cum \in BOOLEAN :
          params = Params(Null, ck, cum, PaddedQ, PaddedK, Null, 0, Null, 1)
    /\ \E bs \in 0..MaxStride, rs \in 0..MaxStride : launch = Launch(bs, rs, 1)
    /\ Start

\* block tables varied
InitTables ==
    /\ Varlen = TRUE
    /\ \E tbl \in BlockTables, cbs \in 0..MaxStride :
          params = Params(Null, Null, TRUE, PaddedQ, PaddedK, Null, 0, tbl, cbs)
    /\ launch = Launch(1, 1, 1)
    /\ Start

\* block addressing varied, with and without a block table
InitPaged ==
    /\ Varlen = TRUE
    /\ \E ck \in {Null, Cumulative([i \in 1..BatchSize |-> MaxLen])},
          tbl \in {Null, IdentityTable, Reverse(IdentityTable)},
          cbs \in 0..MaxStride :
          params = Params(Null, ck, TRUE, PaddedQ, PaddedK, Null, 0, tbl, cbs)
    /\ \E bs \in 0..MaxStride, rs \in 0..MaxStride, n \in 1..MaxStride :
          launch = Launch(bs, rs, n)
    /\ Start

\* block tables and cache block strides near the ends of int
LargeInts == {1, 46341, 65536, 2147483647}

InitLarge ==
    /\ Varlen = TRUE
    /\ \E f \in [0..(PagesPerSeq - 1) -> LargeInts], cbs \in LargeInts :
          params = Params(Null, Null, TRUE, PaddedQ, PaddedK, Null, 0,
                          [i \in 1..(BatchSize * PagesPerSeq) |->
                              f[(i - 1) % PagesPerSeq]], cbs)
    /\ launch = Launch(1, 1, 1)
    /\ Start

Init == InitQuery \/ InitKeyLen \/ InitKeyAddr \/ InitTables \/ InitPaged

----------------------------------------------------------------------------
(* One BlockInfo is built per batch index and then queried.  The kernel    *)
(* passes the accessors the batch index it built the instance for.         *)

Construct(b) ==
    /\ pc = "launched"
    /\ binfo' = BlockInfo(Varlen, params, b)
    /\ bidb' = b
    /\ pc' = "constructed"
    /\ UNCHANGED <<Varlen, params, launch, call>>

Q_offset ==
    /\ pc = "constructed"
    /\ call' = [op |-> "q_offset", start |-> 0, block_id |-> 0, delta |-> 0,
                ret |-> q_offset(binfo, FromInt(launch.batch_stride),
                                 FromInt(launch.row_stride), bidb)]
    /\ UNCHANGED <<Varlen, params, launch, pc, bidb, binfo>>

K_offset ==
    /\ pc = "constructed"
    /\ call' = [op |-> "k_offset", start |-> 0, block_id |-> 0, delta |-> 0,
                ret |-> k_offset(binfo, FromInt(launch.batch_stride),
                                 FromInt(launch.row_stride), bidb)]
    /\ UNCHANGED <<Varlen, params, launch, pc, bidb, binfo>>

\* the kernel points its K pointer at block block_id
K_offset_pg(block_id, widen) ==
    /\ pc = "constructed"
    /\ call' = [op |-> "k_offset_pg", start |-> block_id,
                block_id |-> block_id, delta |-> 0,
                ret |-> k_offset_pg(binfo, FromInt(launch.batch_stride),
                                    FromInt(launch.row_stride), bidb, block_id,
                                    launch.k_block_n, widen)]
    /\ UNCHANGED <<Varlen, params, launch, pc, bidb, binfo>>

\* the kernel moves its K pointer from block call.block_id to the one before
K_advance_offset_pg ==
    /\ pc = "constructed"
    /\ call.op \in {"k_offset_pg", "k_advance_offset_pg"}
    /\ call.block_id >= 1
    /\ LET d == k_advance_offset_pg(binfo, bidb, call.block_id,
                                    FromInt(launch.row_stride), launch.k_block_n)
       IN  call' = [op |-> "k_advance_offset_pg",
                    start |-> call.start,
                    block_id |-> call.block_id - 1,
                    delta |-> d,
                    ret |-> WAdd(call.ret, FromInt(d))]
    /\ UNCHANGED <<Varlen, params, launch, pc, bidb, binfo>>

Next ==
    \/ \E b \in 0..(BatchSize - 1) : Construct(b)
    \/ Q_offset
    \/ K_offset
    \/ \E block_id \in 0..(PagesPerSeq - 1), widen \in BOOLEAN :
          K_offset_pg(block_id, widen)
    \/ K_advance_offset_pg

Spec == Init /\ [][Next]_vars

SpecLarge == InitLarge /\ [][Next]_vars

----------------------------------------------------------------------------
(* Properties.  Lengths, strides and offsets of Spec are small, so the     *)
(* right-hand sides below are exact integers.                              *)

Constructed == pc = "constructed"

HasCuQ == params.cu_seqlens_q # Null
HasCuK == params.cu_seqlens_k # Null
HasTable == params.pg_attn_block_tables_ptr # Null

\* cu[bidb + 1] - cu[bidb]
PackedLength(cu) == At(cu, bidb + 1) - At(cu, bidb)

NewKeyLength == IF params.knew_ptr = Null THEN 0 ELSE params.seqlen_knew

\* the block table's entry for (bidb, block)
TableAt(block) ==
    At(params.pg_attn_block_tables_ptr,
       bidb * params.pg_attn_block_tables_batch_stride + block)

\* C1: with Varlen = true, the cached key length is seqlen_k without a key
\* array; with cumulative key offsets it is cu[b+1] - cu[b] and the key base
\* offset is cu[b]; with per-batch key lengths it is the raw cu[b] and the
\* key base offset is -1.
C1_CachedKeyLength ==
    (Constructed /\ Varlen) =>
        /\ ~HasCuK => binfo.seqlen_k_cache = params.seqlen_k
        /\ (HasCuK /\ params.is_seqlens_k_cumulative) =>
              /\ binfo.seqlen_k_cache = PackedLength(params.cu_seqlens_k)
              /\ binfo.sum_s_k = At(params.cu_seqlens_k, bidb)
        /\ (HasCuK /\ ~params.is_seqlens_k_cumulative) =>
              /\ binfo.seqlen_k_cache = At(params.cu_seqlens_k, bidb)
              /\ binfo.sum_s_k = -1

\* per-batch lengths whose raw value at b differs from the difference
C1_Witness ==
    /\ Constructed /\ Varlen /\ HasCuK /\ ~params.is_seqlens_k_cumulative
    /\ bidb = 1
    /\ At(params.cu_seqlens_k, 1) > 0
    /\ PackedLength(params.cu_seqlens_k) = 0
    /\ binfo.seqlen_k_cache = At(params.cu_seqlens_k, 1)

\* C2: with Varlen = true, without a query array the query base offset is -1
\* and the query length is seqlen_q; with one the base offset is cu[b] and
\* the length cu[b+1] - cu[b], which is >= 0 when the array is monotone.
C2_QueryFields ==
    (Constructed /\ Varlen) =>
        /\ ~HasCuQ =>
              /\ binfo.sum_s_q = -1
              /\ binfo.actual_seqlen_q = params.seqlen_q
        /\ HasCuQ =>
              /\ binfo.sum_s_q = At(params.cu_seqlens_q, bidb)
              /\ binfo.actual_seqlen_q = PackedLength(params.cu_seqlens_q)
              /\ Monotone(params.cu_seqlens_q) => binfo.actual_seqlen_q >= 0

C2_Witness ==
    /\ Constructed /\ Varlen /\ HasCuQ /\ Monotone(params.cu_seqlens_q)
    /\ bidb = 1
    /\ binfo.sum_s_q = 1
    /\ binfo.actual_seqlen_q = 1
    /\ At(params.cu_seqlens_q, 2) = 2

\* C3: in every key mode, actual_seqlen_k = seqlen_k_cache + the new key
\* length, which counts as 0 without new keys.
C3_TotalKeyLength ==
    Constructed => binfo.actual_seqlen_k = binfo.seqlen_k_cache + NewKeyLength

C3_Witness ==
    /\ Constructed /\ Varlen /\ HasCuK /\ params.is_seqlens_k_cumulative
    /\ params.knew_ptr # Null /\ params.seqlen_knew > 0
    /\ binfo.seqlen_k_cache > 0
    /\ binfo.actual_seqlen_k = binfo.seqlen_k_cache + params.seqlen_knew

\* C4: k_offset_pg without a block table returns k_offset(...) +
\* block_id * k_block_n * row_stride; with one it returns
\* table[bidb * batch stride of the table + block_id] * cache block stride.
C4_PagedKeyOffset ==
    call.op = "k_offset_pg" =>
        IF HasTable
        THEN call.ret =
                FromInt(TableAt(call.block_id)
                          * params.pg_attn_cache_block_stride)
        ELSE call.ret =
                WAdd(k_offset(binfo, FromInt(launch.batch_stride),
                              FromInt(launch.row_stride), bidb),
                     FromInt(call.block_id * launch.k_block_n
                               * launch.row_stride))

\* a looked-up offset that the contiguous arithmetic would not give
C4_Witness ==
    /\ call.op = "k_offset_pg" /\ HasTable
    /\ bidb = 1 /\ call.block_id = 1
    /\ launch.batch_stride > 0 /\ launch.row_stride > 0
    /\ TableAt(1) # TableAt(0)
    /\ call.ret = FromInt(TableAt(1) * params.pg_attn_cache_block_stride)
    /\ call.ret # FromInt(bidb * launch.batch_stride
                            + launch.k_block_n * launch.row_stride)

\* the delta k_advance_offset_pg is to return at block p
ExpectedDelta(p) ==
    IF HasTable
    THEN (TableAt(p - 1) - TableAt(p)) * params.pg_attn_cache_block_stride
    ELSE -(launch.k_block_n * launch.row_stride)

\* C5: a K pointer set by k_offset_pg at block start and advanced by
\* k_advance_offset_pg block by block holds, at every block it reaches, the
\* offset k_offset_pg gives for that block; each delta is
\* -(k_block_n * row_stride) without a block table and
\* (table[b, p-1] - table[b, p]) * cache block stride with one.
C5_WalkReconstructs ==
    call.op = "k_advance_offset_pg" =>
        /\ call.delta = ExpectedDelta(call.block_id + 1)
        /\ call.ret = k_offset_pg(binfo, FromInt(launch.batch_stride),
                                  FromInt(launch.row_stride), bidb,
                                  call.block_id, launch.k_block_n, FALSE)

\* two steps through a table whose steps differ
C5_Witness ==
    /\ call.op = "k_advance_offset_pg" /\ HasTable
    /\ call.start = 2 /\ call.block_id = 0
    /\ params.pg_attn_cache_block_stride > 0
    /\ ExpectedDelta(1) # ExpectedDelta(2)
    /\ call.delta = ExpectedDelta(1)

\* table[b, p] = p for every b and p
IsIdentityTable ==
    /\ HasTable
    /\ \A b \in 0..(BatchSize - 1), p \in 0..(PagesPerSeq - 1) :
          At(params.pg_attn_block_tables_ptr,
             b * params.pg_attn_block_tables_batch_stride + p) = p

IdentityPaging ==
    /\ call.op = "k_offset_pg"
    /\ IsIdentityTable
    /\ params.pg_attn_cache_block_stride
          = launch.k_block_n * launch.row_stride

\* what k_offset_pg returns for the same call without a block table
Contiguous ==
    k_offset_pg([binfo EXCEPT !.pg_attn_block_tables_ptr = Null],
                FromInt(launch.batch_stride), FromInt(launch.row_stride),
                bidb, call.block_id, launch.k_block_n, FALSE)

KeyRowOffset ==
    k_offset(binfo, FromInt(launch.batch_stride), FromInt(launch.row_stride),
             bidb)

\* C6 as stated: on the identity table with cache block stride =
\* k_block_n * row_stride, k_offset_pg returns with the table what it
\* returns without it.
C6_Original == IdentityPaging => call.ret = Contiguous

\* C6 as amended: under the same conditions the value without the table is
\* k_offset(...) + the value with it, so the two agree exactly when
\* k_offset(...) is 0.
C6_AgreeUpToKeyRowOffset ==
    IdentityPaging =>
        /\ Contiguous = WAdd(KeyRowOffset, call.ret)
        /\ (call.ret = Contiguous) <=> (KeyRowOffset = FromInt(0))

C6_Witness ==
    /\ IdentityPaging
    /\ bidb = 1 /\ call.block_id = 2
    /\ params.pg_attn_cache_block_stride > 0
    /\ KeyRowOffset # FromInt(0)
    /\ call.ret # Contiguous

\* C7: q_offset and k_offset return bidb * batch_stride when the base offset
\* is -1 and base offset * row_stride otherwise; so q_offset without a query
\* array, and k_offset with per-batch key lengths, are bidb * batch_stride.
C7_RowOffsets ==
    /\ call.op = "q_offset" =>
          /\ call.ret = FromInt(IF binfo.sum_s_q = -1
                                THEN bidb * launch.batch_stride
                                ELSE binfo.sum_s_q * launch.row_stride)
          /\ ~HasCuQ => call.ret = FromInt(bidb * launch.batch_stride)
    /\ call.op = "k_offset" =>
          /\ call.ret = FromInt(IF binfo.sum_s_k = -1
                                THEN bidb * launch.batch_stride
                                ELSE binfo.sum_s_k * launch.row_stride)
          /\ (HasCuK /\ ~params.is_seqlens_k_cumulative) =>
                call.ret = FromInt(bidb * launch.batch_stride)

\* a packed query offset, scaled by a row stride that is not the batch stride
C7_Witness ==
    /\ call.op = "q_offset" /\ Varlen /\ HasCuQ
    /\ binfo.sum_s_q > 0
    /\ launch.row_stride > 0
    /\ launch.batch_stride # launch.row_stride
    /\ call.ret = FromInt(binfo.sum_s_q * launch.row_stride)

\* C8 as stated: in every instantiation, an array that is present gives the
\* base offset cu[b] and the packed length, one that is absent gives -1 and
\* the padded length, for queries and for keys alike.
C8_Original ==
    Constructed =>
        /\ HasCuQ =>
              /\ binfo.sum_s_q = At(params.cu_seqlens_q, bidb)
              /\ binfo.actual_seqlen_q = PackedLength(params.cu_seqlens_q)
        /\ ~HasCuQ =>
              /\ binfo.sum_s_q = -1
              /\ binfo.actual_seqlen_q = params.seqlen_q
        /\ HasCuK =>
              /\ binfo.sum_s_k = At(params.cu_seqlens_k, bidb)
              /\ binfo.seqlen_k_cache =
                    IF params.is_seqlens_k_cumulative
                    THEN PackedLength(params.cu_seqlens_k)
                    ELSE At(params.cu_seqlens_k, bidb)
        /\ ~HasCuK =>
              /\ binfo.sum_s_k = -1
              /\ binfo.seqlen_k_cache = params.seqlen_k

\* C8 as amended: with Varlen = true the query fields follow the presence of
\* the query array alone, and the key fields follow the presence of the key
\* array and is_seqlens_k_cumulative (base offset cu[b] only when the
\* offsets are cumulative, -1 with per-batch lengths); with Varlen = false
\* both are padded whatever arrays are present.
C8_Interpretation ==
    Constructed =>
        /\ (Varlen /\ HasCuQ) =>
              /\ binfo.sum_s_q = At(params.cu_seqlens_q, bidb)
              /\ binfo.actual_seqlen_q = PackedLength(params.cu_seqlens_q)
        /\ (Varlen /\ HasCuK /\ params.is_seqlens_k_cumulative) =>
              /\ binfo.sum_s_k = At(params.cu_seqlens_k, bidb)
              /\ binfo.seqlen_k_cache = PackedLength(params.cu_seqlens_k)
        /\ (Varlen /\ HasCuK /\ ~params.is_seqlens_k_cumulative) =>
              /\ binfo.sum_s_k = -1
              /\ binfo.seqlen_k_cache = At(params.cu_seqlens_k, bidb)
        /\ (~Varlen \/ ~HasCuQ) =>
              /\ binfo.sum_s_q = -1
              /\ binfo.actual_seqlen_q = params.seqlen_q
        /\ (~Varlen \/ ~HasCuK) =>
              /\ binfo.sum_s_k = -1
              /\ binfo.seqlen_k_cache = params.seqlen_k

\* Varlen = false with a query array present: padded all the same
C8_Witness ==
    /\ Constructed /\ ~Varlen /\ HasCuQ
    /\ bidb = 1
    /\ At(params.cu_seqlens_q, 1) > 0
    /\ binfo.sum_s_q = -1
    /\ binfo.actual_seqlen_q = params.seqlen_q

\* the caller's contract: cumulative offsets are monotone; lengths are >= 0
InputContract ==
    /\ (HasCuK /\ params.is_seqlens_k_cumulative) =>
          Monotone(params.cu_seqlens_k)
    /\ HasCuK => \A i \in 1..Len(params.cu_seqlens_k) :
                    params.cu_seqlens_k[i] >= 0
    /\ params.seqlen_k >= 0
    /\ params.seqlen_knew >= 0

\* C9: under the contract, actual_seqlen_k >= seqlen_k_cache >= 0.
C9_LengthOrder ==
    (Constructed /\ InputContract) =>
        /\ binfo.seqlen_k_cache >= 0
        /\ binfo.actual_seqlen_k >= binfo.seqlen_k_cache

C9_Witness ==
    /\ Constructed /\ InputContract
    /\ Varlen /\ HasCuK /\ ~params.is_seqlens_k_cumulative
    /\ params.knew_ptr # Null
    /\ binfo.seqlen_k_cache > 0
    /\ binfo.actual_seqlen_k > binfo.seqlen_k_cache

\* C10: with a block table whose entries and cache block stride are
\* non-negative ints, k_offset_pg returns the exact product entry * stride
\* as an index_t.
C10_ExactProduct ==
    (call.op = "k_offset_pg" /\ HasTable
       /\ TableAt(call.block_id) >= 0
       /\ params.pg_attn_cache_block_stride >= 0) =>
        call.ret = WMul(FromInt(TableAt(call.block_id)),
                        FromInt(params.pg_attn_cache_block_stride))

=============================================================================
